---- MODULE Spec2Model ----
(***************************************************************************)
(* A model of smart_open/s3.py: the seekable buffered Reader over range    *)
(* GETs (_SeekableRawReader + Reader), the MultipartWriter and the         *)
(* iter_bucket download pipeline.                                          *)
(*                                                                         *)
(* Six specifications share the module:                                    *)
(*   ReaderSpec    a Reader over a fixed object of the store               *)
(*   WriterSpec    one MultipartWriter, then a Reader over what it stored  *)
(*   BucketSpec    iter_bucket over a worker pool                          *)
(*   RetrySpec     one call of _retry_if_failed                            *)
(*   SingleSpec    one SinglepartWriter                                    *)
(*   LineSpec      a Reader read line by line, line_terminator varying     *)
(***************************************************************************)
EXTENDS Integers, Sequences, FiniteSets, TLC

\* ------------------------------------------------------------------ bounds
MaxLen == 3        \* longest object, in bytes
MaxChunk == 2      \* largest buffer_size of a Reader
MaxFaults == 2     \* transport faults injected in one behaviour of a Reader
MaxWrites == 3     \* most write calls on one MultipartWriter
MaxWrite == 3      \* longest argument of one write
MaxPart == 5       \* largest min_part_size
MaxRejects == 1    \* store calls of one MultipartWriter that fail
MaxKeys == 3       \* most keys under the prefix
MaxPages == 2      \* most pages of one listing
MaxWorkers == 2    \* largest worker pool
MaxRetries == 1    \* largest retries of iter_bucket
MaxDownloadFaults == 2   \* download attempts that fail in one behaviour
MaxAttempts == 4   \* largest attempts of _retry_if_failed

\* --------------------------------------------------------------- constants
WHENCE_START == 0
WHENCE_CURRENT == 1
WHENCE_END == 2

None == -1         \* Python's None where an int is expected

UPLOAD_ATTEMPTS == 6

VARIABLES
    \* the store
    object,          \* the bytes of the object at (bucket, key)
    exists,          \* whether there is an object at (bucket, key)
    session,         \* the multipart upload: "open", "completed", "aborted"
    uploaded,        \* the parts the store accepted, [num, data]; the ETag of
                     \* a part is its index
    submitted,       \* 'Parts' of the last complete request
    finalized,       \* complete and abort requests the store carried out
    late,            \* a request on the session reached the store after one
                     \* of those
    \* _SeekableRawReader
    content_length,  \* _content_length, None until a response told it
    position,        \* _position
    body,            \* _body
    \* Reader
    current_pos,     \* _current_pos
    buffer,          \* _buffer: the unread bytes of the ByteBuffer
    eof,             \* _eof
    buffer_size,     \* _buffer_size, the chunk size of the ByteBuffer
    line_terminator, \* _line_terminator
    reading,         \* a Reader has been constructed
    \* MultipartWriter
    min_part_size,   \* _min_part_size
    buf,             \* _buf, an io.BytesIO: its bytes and its position
    total_bytes,     \* _total_bytes
    total_parts,     \* _total_parts
    parts,           \* _parts
    mp,              \* _mp is not None
    \* the calls made so far
    written,         \* the bytes passed to write, in order
    writes,          \* the number of write calls
    rejects,         \* store calls of the writer that failed so far
    clean,           \* no call on the writer has raised
    wlast,           \* the last call on the writer and its outcome
    faults,          \* transport faults injected so far
    last,            \* the last call on the Reader and its outcome
    prev,            \* the call before it
    \* iter_bucket: its arguments and the bucket
    pages,           \* the pages list_objects_v2 answers with, in order
    accept_key,      \* the keys accept_key returns True for
    key_limit,       \* key_limit, or None
    workers,         \* workers
    retries,         \* retries
    \* _list_bucket
    ctoken,          \* ctoken; 0 is None
    listing,         \* the key iterator is not exhausted
    list_requests,   \* the ContinuationToken of each list request made
    \* the pool
    tasks,           \* keys listed and not yet handed to a worker
    inflight,        \* the key each worker is downloading; 0 is none
    results,         \* what the downloads returned, in order of completion
    dfaults,         \* download attempts that failed so far
    \* the generator
    consumed,        \* results the loop has taken
    key_no,          \* key_no
    total_size,      \* total_size
    yielded,         \* the pairs yielded, in order
    done,            \* "running", "stopped", "exhausted" or "failed"
    \* _retry_if_failed: its arguments and what the call came to
    partial_outcomes, \* how the successive invocations of partial() end
    attempts,        \* attempts
    exceptions,      \* exceptions: the errors that are retried
    retry_result,    \* the call: its result, its invocations and its sleeps
    \* SinglepartWriter
    sp_buf,          \* _buf, an io.BytesIO, or NoBuf for None
    sp_total_bytes   \* _total_bytes

storeVars == <<object, exists, session, uploaded, submitted, finalized, late>>

readerVars == <<content_length, position, body, current_pos, buffer, eof,
                buffer_size, line_terminator, reading, faults, last, prev>>

writerVars == <<min_part_size, buf, total_bytes, total_parts, parts, mp,
                written, writes, rejects, clean, wlast>>

bucketVars == <<pages, accept_key, key_limit, workers, retries, ctoken, listing,
                list_requests, tasks, inflight, results, dfaults,
                consumed, key_no, total_size, yielded, done>>

retryVars == <<partial_outcomes, attempts, exceptions, retry_result>>

singleVars == <<sp_buf, sp_total_bytes>>

vars == <<storeVars, readerVars, writerVars, bucketVars, retryVars, singleVars>>

Max(a, b) == IF a >= b THEN a ELSE b
Min(a, b) == IF a <= b THEN a ELSE b

\* s[from+1 .. to] in Python's slice notation s[from:to]
Slice(s, from, to) == SubSeq(s, from + 1, Min(to, Len(s)))

\* ------------------------------------------------------------------ bodies
\* self._body: None, an empty io.BytesIO(), or the stream of a response.
\* `broken` marks a stream whose connection was dropped by the peer: reading
\* past the bytes already received raises IncompleteReadError.
NoBody == [kind |-> "none", data |-> <<>>, broken |-> FALSE]
EmptyBody == [kind |-> "bytesio", data |-> <<>>, broken |-> FALSE]
Stream(d) == [kind |-> "stream", data |-> d, broken |-> FALSE]

\* ------------------------------------------------------------- the store
\* The answer of the store to GET with Range: bytes=<start>-<stop>, one of
\* start and stop being None. A start at or past the end, a suffix of zero
\* bytes and any range of an empty object are not satisfiable.
StoreGet(obj, start, stop) ==
    IF start # None
    THEN IF start < Len(obj)
         THEN [kind |-> "ok", start |-> start, length |-> Len(obj),
               data |-> Slice(obj, start, Len(obj))]
         ELSE [kind |-> "range", start |-> 0, length |-> Len(obj), data |-> <<>>]
    ELSE IF stop > 0 /\ Len(obj) > 0
         THEN [kind |-> "ok", start |-> Max(0, Len(obj) - stop), length |-> Len(obj),
               data |-> Slice(obj, Max(0, Len(obj) - stop), Len(obj))]
         ELSE [kind |-> "range", start |-> 0, length |-> Len(obj), data |-> <<>>]

\* ----------------------------------------------------- _SeekableRawReader
\* The operators below take the state of the reader as a record s and return
\* the set of states the call can end in. Beside the fields of the reader, s
\* carries obj (the object in the store), flt (faults injected so far), and of
\* the running call: reqs (store requests issued), ranged (those of them that
\* carry a Range), gf (GETs that failed), inc
\* (IncompleteReadErrors raised by the body), ret (bytes returned by the
\* innermost read), out (bytes the call returns) and err (the exception it
\* raises, "none" when none).
CanFault(s) == s.flt < MaxFaults

\* OpenBody asking for the object from its start when no range is given
OpenBodyFromStart(s, start, stop) ==
    LET st == IF start = None /\ stop = None THEN 0 ELSE start
        resp == StoreGet(s.obj, st, stop)
        opened == [s EXCEPT !.content_length = resp.length, !.position = resp.start,
                            !.body = Stream(resp.data), !.reqs = @ + 1,
                            !.ranged = @ + 1]
        hinted == [s EXCEPT !.content_length = resp.length, !.position = resp.length,
                            !.body = EmptyBody, !.reqs = @ + 1,
                            !.ranged = @ + 1]
    IN  IF resp.kind = "ok" THEN {opened} ELSE {hinted}

\* _open_body
OpenBody(s, start, stop) ==
    LET st == IF start = None /\ stop = None THEN s.position ELSE start
        resp == StoreGet(s.obj, st, stop)
        \* 'ContentRange' of the response: the start and the length
        opened == [s EXCEPT !.content_length = resp.length, !.position = resp.start,
                            !.body = Stream(resp.data), !.reqs = @ + 1,
                            !.ranged = @ + 1]
        \* out of range: the size is error_response['ActualObjectSize'] ...
        hinted == [s EXCEPT !.content_length = resp.length, !.position = resp.length,
                            !.body = EmptyBody, !.reqs = @ + 1,
                            !.ranged = @ + 1]
        \* ... or, that key missing, 'ContentLength' of one more request
        asked == [hinted EXCEPT !.reqs = @ + 1]
        \* _get raises IOError for any other ClientError
        getFailed == [s EXCEPT !.err = "IOError", !.reqs = @ + 1,
                                !.ranged = @ + 1, !.flt = @ + 1,
                                !.gf = @ + 1]
        \* the ContentLength request of the KeyError branch fails
        sizeFailed == [s EXCEPT !.err = "IOError", !.reqs = @ + 2,
                                 !.ranged = @ + 1, !.flt = @ + 1,
                                 !.gf = @ + 1]
    IN  (IF resp.kind = "ok" THEN {opened} ELSE {hinted, asked})
        \cup (IF CanFault(s) THEN {getFailed} ELSE {})
        \cup (IF CanFault(s) /\ resp.kind = "range" THEN {sizeFailed} ELSE {})

\* _read_from_body: self._body.read() or self._body.read(size)
ReadFromBody(s, size) ==
    LET d == s.body.data
        n == IF size = -1 THEN Len(d) ELSE Min(size, Len(d))
        whole == [s EXCEPT !.ret = Slice(d, 0, n), !.body.data = Slice(d, n, Len(d))]
        \* the peer closes the connection: nothing more arrives
        dropped == [s EXCEPT !.err = "IncompleteReadError", !.flt = @ + 1,
                             !.inc = @ + 1,
                             !.body.data = <<>>, !.body.broken = TRUE]
        \* ... or it closes it after k < n bytes of a sized read
        partial(k) == [s EXCEPT !.ret = Slice(d, 0, k), !.flt = @ + 1,
                                !.body.data = <<>>, !.body.broken = TRUE]
    IN  IF s.body.broken
        THEN {[s EXCEPT !.err = "IncompleteReadError", !.inc = @ + 1]}
        ELSE {whole}
             \cup (IF CanFault(s) /\ s.body.kind = "stream" /\ n > 0
                   THEN {dropped} ELSE {})
             \cup (IF CanFault(s) /\ s.body.kind = "stream" /\ size # -1
                   THEN {partial(k) : k \in 1..(n - 1)} ELSE {})

\* _SeekableRawReader.read
RawRead(s, size) ==
    LET opened == IF s.body.kind = "none" THEN OpenBody(s, None, None) ELSE {s}
        retried(o) ==
            UNION {IF r.err # "none" THEN {r} ELSE ReadFromBody(r, size)
                   : r \in OpenBody([o EXCEPT !.err = "none"], None, None)}
        attempt(o) ==
            UNION {IF b.err = "IncompleteReadError" THEN retried(b) ELSE {b}
                   : b \in ReadFromBody(o, size)}
        advance(b) == IF b.err # "none" THEN b
                      ELSE [b EXCEPT !.position = @ + Len(b.ret)]
    IN  UNION {IF o.err # "none" THEN {o}
               ELSE IF o.content_length = 0 \/ o.content_length = None
                    THEN {[o EXCEPT !.err = "AssertionError"]}
               ELSE IF o.position >= o.content_length
                    THEN {[o EXCEPT !.ret = <<>>]}
               ELSE {advance(b) : b \in attempt(o)}
               : o \in opened}

\* RawSeek with the suffix length of an END seek taken as max(0, offset)
RawSeekWrongSuffix(s, offset, whence) ==
    LET closed == [s EXCEPT !.body = NoBody]
        start == IF whence = WHENCE_START THEN Max(0, offset)
                 ELSE IF whence = WHENCE_CURRENT THEN Max(0, offset + s.position)
                 ELSE None
        stop == IF whence = WHENCE_END THEN Max(0, offset) ELSE None
        reached_eof ==
            IF s.content_length = None THEN FALSE
            ELSE IF start # None /\ start >= s.content_length THEN TRUE
            ELSE stop = 0
    IN  IF reached_eof
        THEN IF s.content_length = 0
             THEN {[closed EXCEPT !.body = EmptyBody, !.err = "AssertionError"]}
             ELSE {[closed EXCEPT !.body = EmptyBody, !.position = s.content_length]}
        ELSE OpenBody(closed, start, stop)

\* _SeekableRawReader.seek; the position it returns is the position field
RawSeek(s, offset, whence) ==
    LET closed == [s EXCEPT !.body = NoBody]
        start == IF whence = WHENCE_START THEN Max(0, offset)
                 ELSE IF whence = WHENCE_CURRENT THEN Max(0, offset + s.position)
                 ELSE None
        stop == IF whence = WHENCE_END THEN Max(0, -offset) ELSE None
        reached_eof ==
            IF s.content_length = None THEN FALSE
            ELSE IF start # None /\ start >= s.content_length THEN TRUE
            ELSE stop = 0
    IN  IF reached_eof
        THEN IF s.content_length = 0
             THEN {[closed EXCEPT !.body = EmptyBody, !.err = "AssertionError"]}
             ELSE {[closed EXCEPT !.body = EmptyBody, !.position = s.content_length]}
        ELSE OpenBody(closed, start, stop)

\* ------------------------------------------------------------- ByteBuffer
\* ByteBuffer.readline: up to and including the terminator, or all of it
RECURSIVE FindTerminator(_, _, _)
FindTerminator(b, t, i) ==
    IF i + Len(t) > Len(b) THEN -1
    ELSE IF Slice(b, i, i + Len(t)) = t THEN i
    ELSE FindTerminator(b, t, i + 1)

BufferReadline(b, t) ==
    LET index == FindTerminator(b, t, 0)
    IN  IF index = -1 THEN Len(b) ELSE index + Len(t)

\* ----------------------------------------------------------------- Reader
\* ReadFromBuffer without self._current_pos += len(part)
ReadFromBufferKeepsPos(s, size) ==
    LET n == IF size >= 0 THEN Min(size, Len(s.buffer)) ELSE Len(s.buffer)
    IN  [s EXCEPT !.out = @ \o Slice(s.buffer, 0, n),
                  !.buffer = Slice(s.buffer, n, Len(s.buffer))]

\* _read_from_buffer
ReadFromBuffer(s, size) ==
    LET n == IF size >= 0 THEN Min(size, Len(s.buffer)) ELSE Len(s.buffer)
    IN  [s EXCEPT !.out = @ \o Slice(s.buffer, 0, n),
                  !.buffer = Slice(s.buffer, n, Len(s.buffer)),
                  !.current_pos = @ + n]

\* _fill_buffer: ByteBuffer.fill reads one chunk from the raw reader
RECURSIVE FillLoop(_, _)
FillLoop(s, size) ==
    IF Len(s.buffer) < size /\ ~s.eof
    THEN UNION {IF r.err # "none" THEN {r}
                ELSE FillLoop([r EXCEPT !.buffer = @ \o r.ret,
                                        !.eof = IF Len(r.ret) = 0 THEN TRUE ELSE @],
                              size)
                : r \in RawRead(s, s.buffer_size)}
    ELSE {s}

FillBuffer(s, size) == FillLoop(s, Max(size, s.buffer_size))

\* Reader.read
ReaderRead(s, size) ==
    IF size = 0 THEN {s}
    ELSE IF size < 0
    THEN LET drained == ReadFromBuffer(s, -1)
         IN  {IF r.err # "none" THEN r
              ELSE [r EXCEPT !.out = @ \o r.ret, !.current_pos = r.content_length]
              : r \in RawRead(drained, -1)}
    ELSE IF Len(s.buffer) >= size THEN {ReadFromBuffer(s, size)}
    ELSE IF s.eof THEN {ReadFromBuffer(s, -1)}
    ELSE {IF f.err # "none" THEN f ELSE ReadFromBuffer(f, size)
          : f \in FillBuffer(s, size)}

\* Reader.readline
RECURSIVE ReadlineLoop(_)
ReadlineLoop(s) ==
    IF s.eof /\ Len(s.buffer) = 0 THEN {s}
    ELSE LET n == BufferReadline(s.buffer, s.line_terminator)
             part == Slice(s.buffer, 0, n)
             taken == ReadFromBuffer(s, n)
             endswith == Len(part) >= Len(s.line_terminator)
                         /\ Slice(part, Len(part) - Len(s.line_terminator), Len(part))
                            = s.line_terminator
         IN  IF endswith THEN {taken}
             ELSE UNION {IF f.err # "none" THEN {f} ELSE ReadlineLoop(f)
                         : f \in FillBuffer(taken, -1)}

ReaderReadline(s) == ReadlineLoop(s)

\* ReaderSeek without self._buffer.empty()
ReaderSeekStaleBuffer(s, offset, whence) ==
    LET abs == whence = WHENCE_CURRENT
        off == IF abs THEN offset + s.current_pos ELSE offset
        wh == IF abs THEN WHENCE_START ELSE whence
    IN  {IF r.err # "none" THEN r
         ELSE [r EXCEPT !.current_pos = r.position,
                        !.eof = (r.position = r.content_length)]
         : r \in RawSeek(s, off, wh)}

\* Reader.seek
ReaderSeek(s, offset, whence) ==
    LET abs == whence = WHENCE_CURRENT
        off == IF abs THEN offset + s.current_pos ELSE offset
        wh == IF abs THEN WHENCE_START ELSE whence
    IN  {IF r.err # "none" THEN r
         ELSE [r EXCEPT !.current_pos = r.position, !.buffer = <<>>,
                        !.eof = (r.position = r.content_length)]
         : r \in RawSeek(s, off, wh)}

\* ------------------------------------------------------- the Reader's calls
NoCall == [op |-> "none", arg |-> 0, whence |-> 0, out |-> <<>>,
           err |-> "none", reqs |-> 0, ranged |-> 0, flt |-> 0, gf |-> 0,
           inc |-> 0]

\* what is remembered of the call before the last one
Earlier(c) == [op |-> c.op, whence |-> c.whence, ok |-> c.err = "none"]

\* the state of the Reader as the record the operators work on
Self == [obj |-> object,
         content_length |-> content_length, position |-> position, body |-> body,
         current_pos |-> current_pos, buffer |-> buffer, eof |-> eof,
         buffer_size |-> buffer_size, line_terminator |-> line_terminator,
         flt |-> faults, reqs |-> 0, ranged |-> 0, gf |-> 0, inc |-> 0,
         ret |-> <<>>, out |-> <<>>, err |-> "none"]

\* what a call leaves behind
Becomes(r, op, arg, whence) ==
    /\ content_length' = r.content_length
    /\ position' = r.position
    /\ body' = r.body
    /\ current_pos' = r.current_pos
    /\ buffer' = r.buffer
    /\ eof' = r.eof
    /\ faults' = r.flt
    /\ prev' = Earlier(last)
    /\ last' = [op |-> op, arg |-> arg, whence |-> whence,
                out |-> IF r.err = "none" THEN r.out ELSE <<>>,
                err |-> r.err, reqs |-> r.reqs, ranged |-> r.ranged,
                flt |-> r.flt - faults,
                gf |-> r.gf, inc |-> r.inc]
    /\ UNCHANGED <<buffer_size, line_terminator, reading>>
    /\ UNCHANGED <<storeVars, writerVars, bucketVars, retryVars,
                 singleVars>>

ReadSizes == -1..(MaxLen + 1)
\* a negative offset from the start is the start, a positive one from the end
\* is the end: one of each is tried
SeekArgs ==
    {<<o, WHENCE_START>> : o \in -1..(MaxLen + 1)}
    \cup {<<o, WHENCE_CURRENT>> : o \in -MaxLen..MaxLen}
    \cup {<<o, WHENCE_END>> : o \in -(MaxLen + 1)..1}

Read(size) == reading /\ \E r \in ReaderRead(Self, size) : Becomes(r, "read", size, 0)

Readline == reading /\ \E r \in ReaderReadline(Self) : Becomes(r, "readline", -1, 0)

Seek(offset, whence) ==
    reading /\ \E r \in ReaderSeek(Self, offset, whence) : Becomes(r, "seek", offset, whence)

\* Reader.tell, readable and seekable: they return current_pos, True and True
\* and assign nothing. The caller makes these calls on the Reader as it was
\* constructed, ahead of its first read, readline or seek.
Inspections == {"tell", "readable", "seekable"}

Inspect(op) ==
    /\ reading
    /\ last.op \in {"init"} \cup Inspections
    /\ Becomes(Self, op, 0, 0)

\* the objects a Reader is opened on: <<>>, <<1>>, <<1, 2>>, ...; byte 2 ends
\* a line
Objects == {[i \in 1..n |-> i] : n \in 0..MaxLen}

\* Reader.__init__ on the object obj: the Readers it can construct when the
\* store answers; seek(0) unless defer_seek
\* the constructor that seeks whatever defer_seek is
NewReaderSeeksAnyway(obj, size, terminator, defer_seek) ==
    LET new == [obj |-> obj,
                content_length |-> None, position |-> 0, body |-> NoBody,
                current_pos |-> 0, buffer |-> <<>>, eof |-> FALSE,
                buffer_size |-> size, line_terminator |-> terminator,
                flt |-> MaxFaults, reqs |-> 0, ranged |-> 0, gf |-> 0,
                inc |-> 0, ret |-> <<>>, out |-> <<>>, err |-> "none"]
    IN  {r \in ReaderSeek(new, 0, WHENCE_START) : r.err = "none"}

NewReader(obj, size, terminator, defer_seek) ==
    LET new == [obj |-> obj,
                content_length |-> None, position |-> 0, body |-> NoBody,
                current_pos |-> 0, buffer |-> <<>>, eof |-> FALSE,
                buffer_size |-> size, line_terminator |-> terminator,
                flt |-> MaxFaults, reqs |-> 0, ranged |-> 0, gf |-> 0,
                inc |-> 0, ret |-> <<>>, out |-> <<>>, err |-> "none"]
    IN  IF defer_seek THEN {new}
        ELSE {r \in ReaderSeek(new, 0, WHENCE_START) : r.err = "none"}

NewReaders(obj, size, terminator) ==
    UNION {NewReader(obj, size, terminator, defer_seek) : defer_seek \in BOOLEAN}

\* the call of the constructor, as the calls after it are recorded; arg is 1
\* for defer_seek=True and 0 for defer_seek=False
Constructed(r, defer_seek) ==
    [NoCall EXCEPT !.op = "init", !.arg = IF defer_seek THEN 1 ELSE 0,
                   !.reqs = r.reqs, !.ranged = r.ranged]

\* no writer: the object is there from the start
\* SinglepartWriter._buf = None
NoBuf == [data |-> <<>>, pos |-> None]

\* no SinglepartWriter is constructed
NoSinglepart ==
    /\ sp_buf = NoBuf
    /\ sp_total_bytes = 0

\* _retry_if_failed is not called on its own
NoRetry ==
    /\ partial_outcomes = <<>>
    /\ attempts = 0
    /\ exceptions = {}
    /\ retry_result = [result |-> "none", calls |-> 0, sleeps |-> 0]

\* iter_bucket is not called
NoPipeline ==
    /\ pages = <<>>
    /\ accept_key = {}
    /\ key_limit = None
    /\ workers = 1
    /\ retries = 0
    /\ ctoken = 0
    /\ listing = FALSE
    /\ list_requests = <<>>
    /\ tasks = <<>>
    /\ inflight = [w \in 1..MaxWorkers |-> 0]
    /\ results = <<>>
    /\ dfaults = 0
    /\ consumed = 0
    /\ key_no = -1
    /\ total_size = 0
    /\ yielded = <<>>
    /\ done = "exhausted"

NoWriter ==
    /\ exists = TRUE
    /\ session = "none"
    /\ uploaded = <<>>
    /\ submitted = <<>>
    /\ finalized = 0
    /\ late = FALSE
    /\ min_part_size = 1
    /\ buf = [data |-> <<>>, pos |-> 0]
    /\ total_bytes = 0
    /\ total_parts = 0
    /\ parts = <<>>
    /\ mp = FALSE
    /\ written = <<>>
    /\ writes = 0
    /\ rejects = 0
    /\ clean = TRUE
    /\ wlast = [op |-> "none", err |-> "none", reqs |-> <<>>]

ReaderInit ==
    /\ object \in Objects
    /\ NoWriter
    /\ NoPipeline
    /\ NoRetry
    /\ NoSinglepart
    /\ buffer_size \in 1..MaxChunk
    /\ line_terminator = <<2>>
    /\ reading = TRUE
    /\ faults = 0
    /\ prev = Earlier(NoCall)
    /\ \E defer_seek \in BOOLEAN :
       \E r \in NewReader(object, buffer_size, line_terminator, defer_seek) :
          /\ last = Constructed(r, defer_seek)
          /\ content_length = r.content_length
          /\ position = r.position
          /\ body = r.body
          /\ current_pos = r.current_pos
          /\ buffer = r.buffer
          /\ eof = r.eof

ReaderNext ==
    \/ \E size \in ReadSizes : Read(size)
    \/ Readline
    \/ \E a \in SeekArgs : Seek(a[1], a[2])
    \/ \E op \in Inspections : Inspect(op)

ReaderSpec == ReaderInit /\ [][ReaderNext]_vars

\* ----------------------------------------------------- reading line by line
\* line_terminator as the caller configures it: one byte, or two
Terminators == {<<2>>, <<1, 2>>, <<2, 3>>}

\* Reader.__init__ with a line_terminator, the store answering its requests
LineInit ==
    /\ object \in Objects
    /\ NoWriter
    /\ NoPipeline
    /\ NoRetry
    /\ NoSinglepart
    /\ buffer_size \in 1..MaxChunk
    /\ line_terminator \in Terminators
    /\ reading = TRUE
    /\ faults = MaxFaults
    /\ prev = Earlier(NoCall)
    /\ \E defer_seek \in BOOLEAN :
       \E r \in NewReader(object, buffer_size, line_terminator, defer_seek) :
          /\ last = Constructed(r, defer_seek)
          /\ content_length = r.content_length
          /\ position = r.position
          /\ body = r.body
          /\ current_pos = r.current_pos
          /\ buffer = r.buffer
          /\ eof = r.eof

\* lines are read, and single bytes between them
LineNext ==
    \/ Readline
    \/ \E size \in {1} : Read(size)
    \/ \E a \in {<<0, WHENCE_START>>} : Seek(a[1], a[2])

LineSpec == LineInit /\ [][LineNext]_vars

\* ------------------------------------------------------- _retry_if_failed
\* What _retry_if_failed(partial) does when the successive invocations of
\* partial end as script tells: "ok", "EndpointConnectionError" (the one kind
\* that is retried) or another error.
RECURSIVE RetryLoop(_, _, _, _)
RetryLoop(script, n_attempts, retryable, attempt) ==
    IF attempt >= n_attempts
    THEN [result |-> "IOError", calls |-> attempt, sleeps |-> attempt]
    ELSE IF script[attempt + 1] = "ok"
    THEN [result |-> "ok", calls |-> attempt + 1, sleeps |-> attempt]
    ELSE IF script[attempt + 1] \in retryable
    THEN RetryLoop(script, n_attempts, retryable, attempt + 1)
    ELSE [result |-> script[attempt + 1], calls |-> attempt + 1, sleeps |-> attempt]

\* the loop that invokes partial() once more after an error that is not retried
RetryIfFailedWithRetriesAll(script, n_attempts, retryable) ==
    RetryLoop(script, n_attempts, {"EndpointConnectionError", "ClientError"}, 0)

\* the loop that stops one invocation short
RetryIfFailedWithOneLess(script, n_attempts, retryable) ==
    RetryLoop(script, Max(n_attempts - 1, 0), retryable, 0)

\* _retry_if_failed(partial, attempts, exceptions=retryable)
RetryIfFailedWith(script, n_attempts, retryable) ==
    RetryLoop(script, n_attempts, retryable, 0)

\* _retry_if_failed(partial): attempts and exceptions at their defaults
RetryIfFailed(script) ==
    RetryIfFailedWith(script, UPLOAD_ATTEMPTS, {"EndpointConnectionError"})

\* the endpoint is unreachable k times, then the store answers: it carries the
\* request out ("ok") or rejects it ("ClientError")
Scripts ==
    {[i \in 1..UPLOAD_ATTEMPTS |-> IF i <= k THEN "EndpointConnectionError" ELSE f]
     : k \in 0..UPLOAD_ATTEMPTS, f \in {"ok", "ClientError"}}

\* how a call made through _retry_if_failed can end
Retried == {RetryIfFailed(script).result : script \in Scripts}

\* how a call made directly can end
Direct == {"ok", "ClientError", "EndpointConnectionError"}

\* -------------------------------------------- the store's multipart session
\* The operators below take the writer and the store as one record w and
\* return it as the request leaves it; reqs lists the requests of the running
\* call that reached the store, err is the exception raised.
Request(w, op, ok) ==
    [w EXCEPT !.reqs = Append(@, [op |-> op, ok |-> ok]),
              !.err = IF ok THEN @ ELSE "ClientError",
              !.late = @ \/ (op # "put" /\ w.finalized > 0)]

\* Part(part_num).upload(Body=data)
StoreUpload(w, num, data) ==
    IF w.session = "open"
    THEN [Request(w, "upload", TRUE)
            EXCEPT !.uploaded = Append(@, [num |-> num, data |-> data])]
    ELSE Request(w, "upload", FALSE)

RECURSIVE Assemble(_, _)
Assemble(up, listed) ==
    IF listed = <<>> THEN <<>>
    ELSE up[Head(listed).ETag].data \o Assemble(up, Tail(listed))

\* complete(MultipartUpload={'Parts': listed}): the object is the listed parts
\* in the order listed; an empty list is rejected
StoreComplete(w, listed) ==
    IF w.session = "open" /\ listed # <<>>
       /\ \A i \in 1..Len(listed) :
             /\ listed[i].ETag \in 1..Len(w.uploaded)
             /\ w.uploaded[listed[i].ETag].num = listed[i].PartNumber
    THEN [Request(w, "complete", TRUE)
            EXCEPT !.session = "completed", !.finalized = @ + 1,
                   !.submitted = listed,
                   !.object = Assemble(w.uploaded, listed), !.exists = TRUE]
    ELSE [Request(w, "complete", FALSE) EXCEPT !.submitted = listed]

\* abort()
StoreAbort(w) ==
    IF w.session = "open"
    THEN [Request(w, "abort", TRUE) EXCEPT !.session = "aborted", !.finalized = @ + 1]
    ELSE Request(w, "abort", FALSE)

\* Object.put(Body=data)
StorePut(w, data) ==
    [Request(w, "put", TRUE) EXCEPT !.object = data, !.exists = TRUE]

\* a store call of the writer may fail while rejects < MaxRejects
CanReject(w) == w.rej < MaxRejects

\* the call fails with error: the store rejected it, or was never reached
Failed(w, op, error) ==
    IF error = "ClientError"
    THEN [Request(w, op, FALSE) EXCEPT !.rej = @ + 1]
    ELSE [w EXCEPT !.err = error, !.rej = @ + 1]

\* -------------------------------------------------------- MultipartWriter
\* io.BytesIO.write: at the position, over what is there
BufWrite(b, bytes) ==
    [data |-> Slice(b.data, 0, b.pos) \o bytes
              \o Slice(b.data, b.pos + Len(bytes), Len(b.data)),
     pos |-> b.pos + Len(bytes)]

NewBuf == [data |-> <<>>, pos |-> 0]

\* UploadNextPart without self._buf = io.BytesIO()
UploadNextPartKeepsBuf(w) ==
    LET part_num == w.total_parts + 1
        rewound == [w EXCEPT !.buf.pos = 0]
        sent == StoreUpload(rewound, part_num, rewound.buf.data)
        recorded == [sent EXCEPT !.parts = Append(@, [ETag |-> Len(sent.uploaded),
                                                      PartNumber |-> part_num]),
                                 !.total_parts = @ + 1]
        leftAt(f) == {[f EXCEPT !.buf.pos = p] : p \in {0, Len(f.buf.data)}}
    IN  IF ~w.mp THEN {[rewound EXCEPT !.err = "AttributeError"]}
        ELSE (IF sent.err = "none" THEN {recorded} ELSE leftAt(sent))
             \cup (IF CanReject(w)
                   THEN UNION {leftAt(Failed(rewound, "upload", e))
                               : e \in Retried \ {"ok"}}
                   ELSE {})

\* UploadNextPart with self._total_parts += 1 ahead of the upload
UploadNextPartCountsFirst(w) ==
    LET part_num == w.total_parts + 1
        rewound == [w EXCEPT !.buf.pos = 0, !.total_parts = @ + 1]
        sent == StoreUpload(rewound, part_num, rewound.buf.data)
        recorded == [sent EXCEPT !.parts = Append(@, [ETag |-> Len(sent.uploaded),
                                                      PartNumber |-> part_num]),
                                 !.buf = NewBuf]
        leftAt(f) == {[f EXCEPT !.buf.pos = p] : p \in {0, Len(f.buf.data)}}
    IN  IF ~w.mp THEN {[rewound EXCEPT !.err = "AttributeError"]}
        ELSE (IF sent.err = "none" THEN {recorded} ELSE leftAt(sent))
             \cup (IF CanReject(w)
                   THEN UNION {leftAt(Failed(rewound, "upload", e))
                               : e \in Retried \ {"ok"}}
                   ELSE {})

\* _upload_next_part. A failed upload leaves the position of _buf where the
\* transport stopped reading it: at the start or at the end.
UploadNextPart(w) ==
    LET part_num == w.total_parts + 1
        rewound == [w EXCEPT !.buf.pos = 0]
        sent == StoreUpload(rewound, part_num, rewound.buf.data)
        recorded == [sent EXCEPT !.parts = Append(@, [ETag |-> Len(sent.uploaded),
                                                      PartNumber |-> part_num]),
                                 !.total_parts = @ + 1,
                                 !.buf = NewBuf]
        leftAt(f) == {[f EXCEPT !.buf.pos = p] : p \in {0, Len(f.buf.data)}}
    IN  IF ~w.mp THEN {[rewound EXCEPT !.err = "AttributeError"]}
        ELSE (IF sent.err = "none" THEN {recorded} ELSE leftAt(sent))
             \cup (IF CanReject(w)
                   THEN UNION {leftAt(Failed(rewound, "upload", e))
                               : e \in Retried \ {"ok"}}
                   ELSE {})

\* WriterWrite flushing only above min_part_size
WriterWriteAboveThreshold(w, b) ==
    LET staged == [w EXCEPT !.buf = BufWrite(@, b), !.total_bytes = @ + Len(b)]
    IN  IF staged.buf.pos > staged.min_part_size
        THEN UploadNextPart(staged)
        ELSE {staged}

\* MultipartWriter.write
WriterWrite(w, b) ==
    LET staged == [w EXCEPT !.buf = BufWrite(@, b), !.total_bytes = @ + Len(b)]
    IN  IF staged.buf.pos >= staged.min_part_size
        THEN UploadNextPart(staged)
        ELSE {staged}

\* MultipartWriter.close
\* close that completes the session whether or not bytes were written
WriterCloseCompletesEmpty(w) ==
    LET flushed == IF w.buf.pos # 0 THEN UploadNextPart(w) ELSE {w}
        finished(f) == IF f.mp THEN {StoreComplete(f, f.parts)} ELSE {f}
    IN  UNION {IF f.err # "none" THEN {f}
               ELSE {[c EXCEPT !.mp = FALSE] : c \in finished(f)}
               : f \in flushed}

WriterClose(w) ==
    LET flushed == IF w.buf.pos # 0 THEN UploadNextPart(w) ELSE {w}
        completed(f) ==
            {StoreComplete(f, f.parts)}
            \cup (IF CanReject(f)
                  THEN {Failed([f EXCEPT !.submitted = f.parts], "complete", e)
                        : e \in Retried \ {"ok"}}
                  ELSE {})
        aborted(f) ==
            {StoreAbort(f)}
            \cup (IF CanReject(f)
                  THEN {Failed(f, "abort", e) : e \in Direct \ {"ok"}}
                  ELSE {})
        emptied(a) ==
            {StorePut(a, <<>>)}
            \cup (IF CanReject(a)
                  THEN {Failed(a, "put", e) : e \in Direct \ {"ok"}}
                  ELSE {})
        finished(f) ==
            IF f.total_bytes # 0 /\ f.mp THEN completed(f)
            ELSE IF f.mp
            THEN UNION {IF a.err # "none" THEN {a} ELSE emptied(a) : a \in aborted(f)}
            ELSE {f}
    IN  UNION {IF f.err # "none" THEN {f}
               ELSE {IF c.err # "none" THEN c ELSE [c EXCEPT !.mp = FALSE]
                     : c \in finished(f)}
               : f \in flushed}

\* MultipartWriter.terminate
WriterTerminate(w) ==
    IF ~w.mp THEN {[w EXCEPT !.err = "AssertionError"]}
    ELSE {IF a.err # "none" THEN a ELSE [a EXCEPT !.mp = FALSE]
          : a \in {StoreAbort(w)}
                  \cup (IF CanReject(w)
                        THEN {Failed(w, "abort", e) : e \in Direct \ {"ok"}}
                        ELSE {})}

\* ------------------------------------------------------ the writer's calls
WSelf == [min_part_size |-> min_part_size, buf |-> buf, total_bytes |-> total_bytes,
          total_parts |-> total_parts, parts |-> parts, mp |-> mp,
          object |-> object, exists |-> exists, session |-> session,
          uploaded |-> uploaded, submitted |-> submitted, finalized |-> finalized,
          late |-> late, rej |-> rejects, reqs |-> <<>>, err |-> "none"]

WBecomes(w, op) ==
    /\ buf' = w.buf
    /\ total_bytes' = w.total_bytes
    /\ total_parts' = w.total_parts
    /\ parts' = w.parts
    /\ mp' = w.mp
    /\ object' = w.object
    /\ exists' = w.exists
    /\ session' = w.session
    /\ uploaded' = w.uploaded
    /\ submitted' = w.submitted
    /\ finalized' = w.finalized
    /\ late' = w.late
    /\ rejects' = w.rej
    /\ clean' = (clean /\ w.err = "none")
    /\ wlast' = [op |-> op, err |-> w.err, reqs |-> w.reqs]
    /\ UNCHANGED <<min_part_size, readerVars, bucketVars, retryVars,
                 singleVars>>

\* the caller writes the bytes 1, 2, 3, ... in this order
NextBytes(n) == [i \in 1..n |-> Len(written) + i]

Write(n) ==
    /\ ~reading
    /\ writes < MaxWrites
    /\ writes' = writes + 1
    /\ written' = written \o NextBytes(n)
    /\ \E w \in WriterWrite(WSelf, NextBytes(n)) : WBecomes(w, "write")

Close ==
    /\ ~reading
    /\ UNCHANGED <<written, writes>>
    /\ \E w \in WriterClose(WSelf) : WBecomes(w, "close")

Terminate ==
    /\ ~reading
    /\ UNCHANGED <<written, writes>>
    /\ \E w \in WriterTerminate(WSelf) : WBecomes(w, "terminate")

\* __exit__ that closes whether or not an error escaped the scope
WriterExitAlwaysCloses(w, escaped) == WriterClose(w)

\* MultipartWriter.__exit__: escaped is exc_type is not None
WriterExit(w, escaped) ==
    IF escaped THEN WriterTerminate(w) ELSE WriterClose(w)

\* the scope is left with the writer still open; a writer already closed is
\* closed or terminated again by Close and Terminate
Exit(escaped) ==
    /\ ~reading
    /\ mp
    /\ UNCHANGED <<written, writes>>
    /\ \E w \in WriterExit(WSelf, escaped) :
          WBecomes(w, IF escaped THEN "exit_raised" ELSE "exit")

\* the writer closed, a Reader is opened on the object it left, and reads all
\* of it
OpenReader ==
    /\ ~reading
    /\ exists
    /\ wlast.op = "close" /\ wlast.err = "none"
    /\ reading' = TRUE
    /\ \E size \in {MaxChunk} :
         \E r \in NewReaders(object, size, <<2>>) :
            /\ buffer_size' = size
            /\ content_length' = r.content_length
            /\ position' = r.position
            /\ body' = r.body
            /\ current_pos' = r.current_pos
            /\ buffer' = r.buffer
            /\ eof' = r.eof
    /\ UNCHANGED <<line_terminator, faults, last, prev>>
    /\ UNCHANGED <<storeVars, writerVars, bucketVars, retryVars,
                 singleVars>>

ReadBack == Read(-1)

\* MultipartWriter.__init__: initiate_multipart_upload has returned
WriterInit ==
    /\ object = <<>>
    /\ exists = FALSE
    /\ session = "open"
    /\ uploaded = <<>>
    /\ submitted = <<>>
    /\ finalized = 0
    /\ late = FALSE
    /\ min_part_size \in 1..MaxPart
    /\ buf = NewBuf
    /\ total_bytes = 0
    /\ total_parts = 0
    /\ parts = <<>>
    /\ mp = TRUE
    /\ written = <<>>
    /\ writes = 0
    /\ rejects = 0
    /\ clean = TRUE
    /\ wlast = [op |-> "none", err |-> "none", reqs |-> <<>>]
    /\ NoPipeline
    /\ NoRetry
    /\ NoSinglepart
    /\ reading = FALSE
    /\ content_length = None
    /\ position = 0
    /\ body = NoBody
    /\ current_pos = 0
    /\ buffer = <<>>
    /\ eof = FALSE
    /\ buffer_size = 1
    /\ line_terminator = <<2>>
    /\ faults = MaxFaults
    /\ last = NoCall
    /\ prev = Earlier(NoCall)

WriterNext ==
    \/ \E n \in 0..MaxWrite : Write(n)
    \/ Close
    \/ Terminate
    \/ \E escaped \in BOOLEAN : Exit(escaped)
    \/ OpenReader
    \/ ReadBack

WriterSpec == WriterInit /\ [][WriterNext]_vars

\* -------------------------------------------------------------- iter_bucket
\* the object under a key
Content(key) == [i \in 1..key |-> key]

\* the keys of a page, in the order listed
Ascending(S) == [i \in 1..Cardinality(S) |-> CHOOSE k \in S :
                    Cardinality({j \in S : j < k}) = i - 1]

\* the ways list_objects_v2 can page the keys 1..n: consecutive runs of keys,
\* some of them possibly empty
Listings(n) ==
    {[i \in 1..Len(cut) |-> Ascending({k \in 1..n :
          /\ k > (IF i = 1 THEN 0 ELSE cut[i - 1])
          /\ k <= cut[i]})]
     : cut \in {c \in UNION {[1..np -> 0..n] : np \in 1..MaxPages} :
                  /\ c[Len(c)] = n
                  /\ \A i \in 1..(Len(c) - 1) : c[i] <= c[i + 1]}}

\* accept_key: every key is accepted (_accept_all), or every key but the first
Filters(n) == {1..n, 2..n}

\* _list_bucket yielding every key of the response
AcceptedUnfiltered(page, accept) == page

\* the keys _list_bucket yields from one response
Accepted(page, accept) == SelectSeq(page, LAMBDA key : key \in accept)

\* _download_key: attempt x + 1 of the key, the first fails of them failing
RECURSIVE DownloadLoop(_, _, _, _)
DownloadLoop(key_name, n_retries, fails, x) ==
    IF x >= n_retries + 1
    THEN [key |-> key_name, content |-> <<>>, err |-> "TypeError", attempts |-> x]
    ELSE IF x < fails
    THEN IF x = n_retries
         THEN [key |-> key_name, content |-> <<>>, err |-> "ClientError",
               attempts |-> x + 1]
         ELSE DownloadLoop(key_name, n_retries, fails, x + 1)
    ELSE [key |-> key_name, content |-> Content(key_name), err |-> "none",
          attempts |-> x + 1]

\* _download_key passing over a key whose last attempt failed
DownloadKeySkipsFailed(key_name, n_retries, fails) ==
    LET d == DownloadLoop(key_name, n_retries, fails, 0)
    IN  IF d.err = "ClientError" THEN [d EXCEPT !.err = "none"] ELSE d

DownloadKey(key_name, n_retries, fails) == DownloadLoop(key_name, n_retries, fails, 0)

\* the limit test that lets one pair too many through
LimitReachedLate(no, limit) == limit # None /\ no + 1 > limit

\* the test after a yield: key_limit is not None and key_no + 1 >= key_limit
LimitReached(no, limit) == limit # None /\ no + 1 >= limit

\* the pool feeds from the key iterator: one list_objects_v2 request
ListPage ==
    /\ done = "running" /\ listing
    /\ LET response == pages[ctoken + 1]
           next == IF ctoken + 1 < Len(pages) THEN ctoken + 1 ELSE 0
       IN  /\ list_requests' = Append(list_requests, ctoken)
           /\ tasks' = tasks \o Accepted(response, accept_key)
           /\ ctoken' = next
           /\ listing' = (next # 0)
    /\ UNCHANGED <<pages, accept_key, key_limit, workers, retries, inflight,
                   results, dfaults, consumed, key_no, total_size, yielded,
                   done>>
    /\ UNCHANGED <<storeVars, readerVars, writerVars, retryVars,
                 singleVars>>

\* an idle worker of the pool takes the next key; the workers are alike, and
\* the first idle one is taken to be the one
Take(w) ==
    /\ done = "running"
    /\ w <= workers /\ inflight[w] = 0
    /\ \A v \in 1..(w - 1) : inflight[v] # 0
    /\ tasks # <<>>
    /\ inflight' = [inflight EXCEPT ![w] = Head(tasks)]
    /\ tasks' = Tail(tasks)
    /\ UNCHANGED <<pages, accept_key, key_limit, workers, retries, ctoken,
                   listing, list_requests, results, dfaults, consumed,
                   key_no, total_size, yielded, done>>
    /\ UNCHANGED <<storeVars, readerVars, writerVars, retryVars,
                 singleVars>>

\* _download_key returns or raises in worker w; a download in flight when the
\* generator ends may still complete
Download(w) ==
    /\ inflight[w] # 0
    /\ \E fails \in 0..Min(retries + 1, MaxDownloadFaults - dfaults) :
         LET d == DownloadKey(inflight[w], retries, fails)
         IN  /\ results' = Append(results, [key |-> d.key, content |-> d.content,
                                            err |-> d.err])
             /\ dfaults' = dfaults + fails
    /\ inflight' = [inflight EXCEPT ![w] = 0]
    /\ UNCHANGED <<pages, accept_key, key_limit, workers, retries, ctoken,
                   listing, list_requests, tasks, consumed, key_no,
                   total_size, yielded, done>>
    /\ UNCHANGED <<storeVars, readerVars, writerVars, retryVars,
                 singleVars>>

\* one turn of the loop over result_iterator: the next result is yielded and
\* the limit tested, or the error of the download is raised
Yield ==
    /\ done = "running"
    /\ consumed < Len(results)
    /\ LET result == results[consumed + 1]
       IN  /\ consumed' = consumed + 1
           /\ IF result.err # "none"
              THEN /\ done' = "failed"
                   /\ UNCHANGED <<key_no, total_size, yielded>>
              ELSE /\ key_no' = key_no + 1
                   /\ yielded' = Append(yielded, <<result.key, result.content>>)
                   /\ total_size' = total_size + Len(result.content)
                   /\ done' = IF LimitReached(key_no + 1, key_limit)
                              THEN "stopped" ELSE "running"
    /\ UNCHANGED <<pages, accept_key, key_limit, workers, retries, ctoken,
                   listing, list_requests, tasks, inflight, results, dfaults>>
    /\ UNCHANGED <<storeVars, readerVars, writerVars, retryVars,
                 singleVars>>

\* result_iterator is exhausted: every key listed was downloaded and taken
Exhaust ==
    /\ done = "running"
    /\ ~listing /\ tasks = <<>>
    /\ \A w \in 1..MaxWorkers : inflight[w] = 0
    /\ consumed = Len(results)
    /\ done' = "exhausted"
    /\ UNCHANGED <<pages, accept_key, key_limit, workers, retries, ctoken,
                   listing, list_requests, tasks, inflight, results, dfaults,
                   consumed, key_no, total_size, yielded>>
    /\ UNCHANGED <<storeVars, readerVars, writerVars, retryVars,
                 singleVars>>

\* iter_bucket is called: nothing is listed yet
BucketInit ==
    /\ \E n \in 0..MaxKeys :
         /\ pages \in Listings(n)
         /\ accept_key \in Filters(n)
    /\ key_limit \in {None} \cup 0..MaxKeys
    /\ workers \in 1..MaxWorkers
    /\ retries \in 0..MaxRetries
    /\ ctoken = 0
    /\ listing = TRUE
    /\ list_requests = <<>>
    /\ tasks = <<>>
    /\ inflight = [w \in 1..MaxWorkers |-> 0]
    /\ results = <<>>
    /\ dfaults = 0
    /\ consumed = 0
    /\ key_no = -1
    /\ total_size = 0
    /\ yielded = <<>>
    /\ done = "running"
    /\ object = <<>>
    /\ NoWriter
    /\ NoRetry
    /\ NoSinglepart
    /\ reading = FALSE
    /\ content_length = None
    /\ position = 0
    /\ body = NoBody
    /\ current_pos = 0
    /\ buffer = <<>>
    /\ eof = FALSE
    /\ buffer_size = 1
    /\ line_terminator = <<2>>
    /\ faults = 0
    /\ last = NoCall
    /\ prev = Earlier(NoCall)

BucketNext ==
    \/ ListPage
    \/ \E w \in 1..MaxWorkers : Take(w)
    \/ \E w \in 1..MaxWorkers : Download(w)
    \/ Yield
    \/ Exhaust

BucketSpec == BucketInit /\ [][BucketNext]_vars

\* --------------------------------------------------- _retry_if_failed alone
Outcomes == {"ok", "EndpointConnectionError", "ClientError"}

\* exceptions: the default, or one the caller names
RetryableSets == {{"EndpointConnectionError"},
                  {"EndpointConnectionError", "ClientError"}}

\* _retry_if_failed(partial, attempts, exceptions) is about to be called
RetryInit ==
    /\ partial_outcomes \in [1..MaxAttempts -> Outcomes]
    /\ attempts \in 0..MaxAttempts
    /\ exceptions \in RetryableSets
    /\ retry_result = [result |-> "none", calls |-> 0, sleeps |-> 0]
    /\ object = <<>>
    /\ NoWriter
    /\ NoPipeline
    /\ NoSinglepart
    /\ reading = FALSE
    /\ content_length = None
    /\ position = 0
    /\ body = NoBody
    /\ current_pos = 0
    /\ buffer = <<>>
    /\ eof = FALSE
    /\ buffer_size = 1
    /\ line_terminator = <<2>>
    /\ faults = 0
    /\ last = NoCall
    /\ prev = Earlier(NoCall)

\* the call runs to its return or its raise
Retry ==
    /\ retry_result.result = "none"
    /\ retry_result' = RetryIfFailedWith(partial_outcomes, attempts, exceptions)
    /\ UNCHANGED <<partial_outcomes, attempts, exceptions>>
    /\ UNCHANGED <<storeVars, readerVars, writerVars, bucketVars, singleVars>>

RetryNext == Retry

RetrySpec == RetryInit /\ [][RetryNext]_vars

\* --------------------------------------------------------- SinglepartWriter
\* The operators take the writer and the store as one record w, as those of
\* the MultipartWriter do.
\* SinglepartWriter.write
SingleWrite(w, b) ==
    IF w.buf = NoBuf THEN {[w EXCEPT !.err = "AttributeError"]}
    ELSE {[w EXCEPT !.buf = BufWrite(@, b), !.total_bytes = @ + Len(b)]}

\* close that keeps the buffer after the PUT
SingleCloseKeepsBuf(w) ==
    IF w.buf = NoBuf THEN {w}
    ELSE LET rewound == [w EXCEPT !.buf.pos = 0]
         IN  {StorePut(rewound, rewound.buf.data)}

\* SinglepartWriter.close: a ClientError of the PUT is raised as ValueError
SingleClose(w) ==
    IF w.buf = NoBuf THEN {w}
    ELSE LET rewound == [w EXCEPT !.buf.pos = 0]
             raised(f) == IF f.err = "ClientError"
                          THEN [f EXCEPT !.err = "ValueError"] ELSE f
             leftAt(f) == {[f EXCEPT !.buf.pos = p] : p \in {0, Len(f.buf.data)}}
         IN  {[StorePut(rewound, rewound.buf.data) EXCEPT !.buf = NoBuf]}
             \cup (IF CanReject(w)
                   THEN UNION {leftAt(raised(Failed(rewound, "put", e)))
                               : e \in Direct \ {"ok"}}
                   ELSE {})

\* SinglepartWriter.terminate: nothing to cancel
SingleTerminate(w) == {w}

\* SinglepartWriter.__exit__: escaped is exc_type is not None
SingleExit(w, escaped) ==
    IF escaped THEN SingleTerminate(w) ELSE SingleClose(w)

SSelf == [buf |-> sp_buf, total_bytes |-> sp_total_bytes,
          object |-> object, exists |-> exists, finalized |-> finalized,
          late |-> late, rej |-> rejects, reqs |-> <<>>, err |-> "none"]

SBecomes(w, op) ==
    /\ sp_buf' = w.buf
    /\ sp_total_bytes' = w.total_bytes
    /\ object' = w.object
    /\ exists' = w.exists
    /\ rejects' = w.rej
    /\ clean' = (clean /\ w.err = "none")
    /\ wlast' = [op |-> op, err |-> w.err, reqs |-> w.reqs]
    /\ UNCHANGED <<session, uploaded, submitted, finalized, late>>
    /\ UNCHANGED <<min_part_size, buf, total_bytes, total_parts, parts, mp>>
    /\ UNCHANGED <<readerVars, bucketVars, retryVars>>

SWrite(n) ==
    /\ writes < MaxWrites
    /\ writes' = writes + 1
    /\ written' = written \o NextBytes(n)
    /\ \E w \in SingleWrite(SSelf, NextBytes(n)) : SBecomes(w, "write")

SClose ==
    /\ UNCHANGED <<written, writes>>
    /\ \E w \in SingleClose(SSelf) : SBecomes(w, "close")

STerminate ==
    /\ UNCHANGED <<written, writes>>
    /\ \E w \in SingleTerminate(SSelf) : SBecomes(w, "terminate")

SExit(escaped) ==
    /\ UNCHANGED <<written, writes>>
    /\ \E w \in SingleExit(SSelf, escaped) :
          SBecomes(w, IF escaped THEN "exit_raised" ELSE "exit")

\* SinglepartWriter.__init__: head_bucket has returned
SingleInit ==
    /\ sp_buf = NewBuf
    /\ sp_total_bytes = 0
    /\ object = <<>>
    /\ exists = FALSE
    /\ session = "none"
    /\ uploaded = <<>>
    /\ submitted = <<>>
    /\ finalized = 0
    /\ late = FALSE
    /\ min_part_size = 1
    /\ buf = NewBuf
    /\ total_bytes = 0
    /\ total_parts = 0
    /\ parts = <<>>
    /\ mp = FALSE
    /\ written = <<>>
    /\ writes = 0
    /\ rejects = 0
    /\ clean = TRUE
    /\ wlast = [op |-> "none", err |-> "none", reqs |-> <<>>]
    /\ NoPipeline
    /\ NoRetry
    /\ reading = FALSE
    /\ content_length = None
    /\ position = 0
    /\ body = NoBody
    /\ current_pos = 0
    /\ buffer = <<>>
    /\ eof = FALSE
    /\ buffer_size = 1
    /\ line_terminator = <<2>>
    /\ faults = 0
    /\ last = NoCall
    /\ prev = Earlier(NoCall)

SingleNext ==
    \/ \E n \in 0..MaxWrite : SWrite(n)
    \/ SClose
    \/ STerminate
    \/ \E escaped \in BOOLEAN : SExit(escaped)

SingleSpec == SingleInit /\ [][SingleNext]_vars

\* ---------------------------------------------------- claims on the Reader
\* a seek from the start, to `start`, that returned
SeekTo(c, start) ==
    c.op = "seek" /\ c.whence = WHENCE_START /\ c.arg = start /\ c.err = "none"

\* C1: on an object of L >= 1 bytes, after any calls, seek(start) followed by
\* read(stop - start), 0 <= start <= stop <= L and start < L, returns the
\* bytes [start, stop) of the object; it raises only when the transport fails
\* during the read.
C1_SeekReadReturnsRange ==
    [][\A start \in 0..(Len(object) - 1) :
          (SeekTo(last, start) /\ last'.op = "read" /\ last'.arg >= 0
              /\ start + last'.arg <= Len(object))
          => /\ last'.flt = 0 => last'.err = "none"
             /\ last'.err = "none"
                  => last'.out = Slice(object, start, start + last'.arg)]_vars

\* a read of two bytes from the middle of the object, one byte per fill, after
\* a seek
C1_Witness ==
    /\ prev.op = "seek" /\ prev.whence = WHENCE_START /\ prev.ok
    /\ last.op = "read" /\ last.arg = 2 /\ last.err = "none"
    /\ last.out = <<2, 3>>
    /\ buffer_size = 1

\* C4: for every object, of length 0 too, seek(offset) with offset >=
\* content_length does not raise, the read(n) after it returns no bytes, a
\* second read(n) returns none either, and neither read issues a store request.
C4_EofIsIdempotent ==
    [][/\ (last'.op = "seek" /\ last'.whence = WHENCE_START
            /\ last'.arg >= Len(object) /\ last'.gf = 0)
          => last'.err = "none" /\ current_pos' = Len(object)
       /\ (\E start \in Len(object)..(MaxLen + 1) : SeekTo(last, start))
            /\ last'.op = "read"
          => last'.err = "none" /\ last'.out = <<>> /\ last'.reqs = 0
       /\ (prev.op = "seek" /\ prev.ok /\ last.op = "read" /\ last.err = "none"
            /\ last.out = <<>> /\ current_pos = Len(object)
            /\ last'.op = "read" /\ last'.arg = last.arg)
          => last'.err = "none" /\ last'.out = <<>> /\ last'.reqs = 0]_vars

\* C5: a read of the raw reader (here the one Reader.read() makes) whose body
\* raises IncompleteReadError once reopens one range request at the position
\* and returns the bytes asked for, the position advanced by as many; raised
\* again by the retried read, the call fails with IOError. No third attempt.
C5_IncompleteReadRetriedOnce ==
    [][(last'.op = "read" /\ last'.arg = -1 /\ last'.gf = 0)
        => /\ last'.inc <= 2
           /\ last'.inc = 1
                => /\ last'.err = "none"
                   /\ last'.out = buffer \o Slice(object, position, Len(object))
                   /\ position' = position + (Len(last'.out) - Len(buffer))
                   /\ last'.reqs = IF body.kind = "none" THEN 2 ELSE 1
           /\ last'.inc = 2 => last'.err = "IOError"]_vars

\* C7: on an object of L >= 1 bytes and for 1 <= k <= L, seek(-k, END) returns
\* L - k, the read() after it returns the last k bytes, and tell() is then L.
C7_SeekFromEnd ==
    [][\A k \in 1..Len(object) :
          /\ (last'.op = "seek" /\ last'.whence = WHENCE_END /\ last'.arg = -k
                /\ last'.gf = 0)
              => last'.err = "none" /\ current_pos' = Len(object) - k
          /\ (last.op = "seek" /\ last.whence = WHENCE_END /\ last.arg = -k
                /\ last.err = "none" /\ last'.op = "read" /\ last'.arg = -1
                /\ last'.flt = 0)
              => /\ last'.err = "none"
                 /\ last'.out = Slice(object, Len(object) - k, Len(object))
                 /\ current_pos' = Len(object)]_vars

\* the last two of three bytes, read after a seek from the end
C7_Witness ==
    /\ prev.op = "seek" /\ prev.whence = WHENCE_END /\ prev.ok
    /\ last.op = "read" /\ last.arg = -1 /\ last.err = "none"
    /\ last.out = <<2, 3>> /\ Len(object) = 3
    /\ current_pos = 3

\* ---------------------------------------------------- claims on the writer
\* the bytes of the i-th recorded part, as the store holds them
PartData(i) == uploaded[parts[i].ETag].data

\* the reader's first call was a full read() that no fault interrupted
ReadBackDone ==
    reading /\ last.op = "read" /\ prev.op = "none" /\ last.flt = 0

\* the last call was a close that returned, and no call before it raised
ClosedCleanly == clean /\ wlast.op = "close" /\ wlast.err = "none"

Reached(c, op) == \E i \in 1..Len(c.reqs) : c.reqs[i].op = op

\* C2: whatever min_part_size and the write calls (no store call failing),
\* after close() the parts listed in the completion call, concatenated in
\* the order listed, are the bytes written, and so is what a full read() of
\* the object returns.
C2_RoundTrip ==
    (ClosedCleanly /\ session = "completed")
    => /\ submitted = parts
       /\ Assemble(uploaded, submitted) = written
       /\ exists /\ object = written
       /\ ReadBackDone
            => last.err = "none" /\ last.out = written

\* the writes ended on a part boundary, close flushed no part, and the object
\* of two parts was read back
C2_Witness ==
    /\ ClosedCleanly /\ session = "completed"
    /\ wlast.reqs = <<[op |-> "complete", ok |-> TRUE]>>
    /\ Len(parts) = 2 /\ Len(written) >= 4
    /\ ReadBackDone /\ last.out = written

\* C3: a writer that was given no byte and is closed leaves an object, and a
\* full read() of it returns no bytes and does not raise.
C3_EmptyObjectReadsEmpty ==
    (ClosedCleanly /\ written = <<>> /\ Reached(wlast, "put"))
    => /\ exists /\ object = <<>>
       /\ ReadBackDone
            => last.err = "none" /\ last.out = <<>>

\* C8: with no store call failing, a write flushes a part exactly when it
\* brings the staged bytes to min_part_size or more, and the part carries all
\* of them; close flushes what is staged; every part but the last has
\* min_part_size bytes or more; tell() after close is the sum of the lengths
\* written.
C8_FlushAtThreshold ==
    [][/\ (clean /\ mp /\ writes' = writes + 1 /\ wlast'.err = "none")
          => LET staged == buf.data \o Slice(written', Len(written), Len(written'))
             IN  IF Len(staged) >= min_part_size
                 THEN /\ Len(parts') = Len(parts) + 1
                      /\ uploaded'[parts'[Len(parts')].ETag].data = staged
                      /\ buf' = NewBuf
                 ELSE parts' = parts /\ buf'.data = staged
       /\ (clean /\ mp /\ ~mp' /\ wlast'.op = "close" /\ wlast'.err = "none")
          => /\ total_bytes' = Len(written')
             /\ IF buf.data # <<>>
                THEN /\ Len(parts') = Len(parts) + 1
                     /\ uploaded'[parts'[Len(parts')].ETag].data = buf.data
                ELSE parts' = parts
             /\ \A i \in 1..(Len(parts') - 1) :
                   Len(uploaded'[parts'[i].ETag].data) >= min_part_size]_vars

\* min_part_size 5 and writes of 3, 3 and 3 bytes: parts of 6 and 3 bytes
C8_Witness ==
    /\ ClosedCleanly /\ min_part_size = 5
    /\ writes = 3 /\ Len(written) = 9
    /\ Len(parts) = 2 /\ Len(PartData(1)) = 6 /\ Len(PartData(2)) = 3
    /\ total_bytes = 9

\* C9: whatever the calls and the store calls that fail, the store carries
\* out at most one complete or abort of the session, and no upload, complete
\* or abort request reaches it after that one.
C9_FinalizedOnce == finalized <= 1 /\ ~late

\* C10: the recorded parts are (1, etag_1), ..., (n, etag_n), n = total_parts,
\* in upload order, each the part the store holds under that number, also
\* after an upload that failed; the completion call submits this list.
C10_PartsContiguous ==
    /\ Len(parts) = total_parts
    /\ \A i \in 1..Len(parts) :
         /\ parts[i].PartNumber = i
         /\ parts[i].ETag \in 1..Len(uploaded)
         /\ uploaded[parts[i].ETag].num = i
         /\ \A j \in 1..(i - 1) : parts[j].ETag < parts[i].ETag
    /\ (wlast.op = "close" /\ Reached(wlast, "complete")) => submitted = parts

\* the upload of part 1 failed in the first write and succeeded in the second
C10_Witness ==
    /\ min_part_size = 3 /\ writes = 2 /\ ~clean
    /\ wlast.op = "write" /\ wlast.err = "none"
    /\ Len(parts) = 1 /\ PartData(1) = <<1, 2, 3, 4>>

\* ------------------------------------------------- claims on the pipeline
\* the keys _list_bucket yields over the whole listing
AllAccepted == {k \in accept_key : \E i \in 1..Len(pages) :
                   \E j \in 1..Len(pages[i]) : pages[i][j] = k}

\* C6: with one worker or more, a key_limit k >= 1 and no download failing,
\* iter_bucket yields (key, content) pairs of distinct accepted keys, never
\* more than k of them, exactly min(k, n) of them by the time it ends, n the
\* number of accepted keys, and none once it has ended, whatever downloads in
\* flight complete after that.
C6_YieldsUpToKeyLimit ==
    [][(key_limit >= 1 /\ dfaults' = 0)
       => /\ Len(yielded') <= key_limit
          /\ \A i \in 1..Len(yielded') :
                /\ yielded'[i][1] \in AllAccepted
                /\ yielded'[i][2] = Content(yielded'[i][1])
                /\ \A j \in 1..(i - 1) : yielded'[j][1] # yielded'[i][1]
          /\ done' # "running"
               => Len(yielded') = Min(key_limit, Cardinality(AllAccepted))
          /\ done # "running" => yielded' = yielded]_vars

\* two workers, three keys and key_limit 2: the second pair was yielded while
\* the third key was in flight, and its download completed after that
C6_Witness ==
    /\ key_limit = 2 /\ workers = 2 /\ dfaults = 0
    /\ Cardinality(AllAccepted) = 3
    /\ done = "stopped" /\ Len(yielded) = 2
    /\ Len(results) = 3 /\ consumed = 2

\* the requests of call c that are op
Sent(c, op) == Cardinality({i \in 1..Len(c.reqs) : c.reqs[i].op = op})

\* C14: terminate(), called directly or by __exit__ when an error escaped the
\* scope, on a writer whose session is open (whatever parts are uploaded and
\* bytes staged, the store carrying the request out) sends one abort and
\* nothing else, does not raise, and leaves the writer closed; __exit__ with
\* no error, after bytes were written and no call raised, closes: it sends a
\* completion and no abort.
C14_TerminateAborts ==
    [][/\ (/\ ~UNCHANGED vars
           /\ wlast'.op \in {"terminate", "exit_raised"}
           /\ mp /\ session = "open" /\ rejects' = rejects)
          => /\ wlast'.reqs = <<[op |-> "abort", ok |-> TRUE]>>
             /\ wlast'.err = "none"
             /\ ~mp' /\ session' = "aborted"
             /\ uploaded' = uploaded /\ ~exists'
       /\ (/\ ~UNCHANGED vars
           /\ wlast'.op = "exit"
           /\ clean /\ mp /\ rejects' = rejects /\ total_bytes > 0)
          => /\ Sent(wlast', "abort") = 0
             /\ Sent(wlast', "complete") = 1
             /\ wlast'.err = "none"
             /\ ~mp' /\ session' = "completed"]_vars

\* an error escaped the scope of a writer with a part uploaded and bytes
\* staged, and the session was aborted
C14_Witness ==
    /\ wlast.op = "exit_raised" /\ wlast.err = "none" /\ clean
    /\ Len(parts) >= 1 /\ buf.data # <<>>
    /\ session = "aborted" /\ ~mp

\* C15: a Reader constructed with defer_seek=True has sent no request, and
\* tell(), readable() and seekable() send none and leave it as it is, so that
\* the first request is sent by the first read, readline or seek; a Reader
\* constructed with defer_seek=False has sent exactly one range GET.
C15_DeferredSeekSendsNothing ==
    [][/\ last.op = "init"
          => IF last.arg = 1
             THEN /\ last.reqs = 0
                  /\ content_length = None /\ body = NoBody /\ position = 0
             ELSE last.ranged = 1 /\ body # NoBody
       /\ last'.op \in Inspections
          => /\ last'.reqs = 0 /\ last'.err = "none"
             /\ UNCHANGED <<content_length, position, body, current_pos,
                            buffer, eof>>
       /\ (content_length = None /\ body = NoBody /\ last'.reqs > 0)
          => last'.op \in {"read", "readline", "seek"}]_vars

\* a Reader constructed with defer_seek=True was asked tell() and then read,
\* which sent the first request
C15_Witness ==
    /\ prev.op = "tell" /\ last.op = "read" /\ last.reqs = 1
    /\ last.err = "none" /\ Len(last.out) >= 1

\* the call sent a range GET that the store cannot satisfy: a seek to or past
\* the end, or a first read of an empty object, the length not yet known
UnsatisfiableSeek ==
    /\ content_length = None
    /\ last'.op = "seek" /\ last'.whence = WHENCE_START
    /\ last'.arg >= Len(object)

UnsatisfiableRead ==
    /\ content_length = None /\ body = NoBody /\ Len(object) = 0
    /\ last'.op = "read" /\ last'.reqs >= 1

\* C16: a seek or read whose range GET the store answers with "range not
\* satisfiable" does not raise and leaves position = content_length = the
\* size of the object and an empty body, after one range GET and at most one
\* more request for the size; a GET failing in any other way raises IOError.
C16_OutOfRangeIsEof ==
    [][/\ ((UnsatisfiableSeek \/ UnsatisfiableRead) /\ last'.gf = 0)
          => /\ last'.err = "none"
             /\ position' = Len(object) /\ content_length' = Len(object)
             /\ body' = EmptyBody
             /\ last'.ranged = 1 /\ last'.reqs \in {1, 2}
       /\ (last'.gf > 0 /\ ~UNCHANGED vars) => last'.err = "IOError"]_vars

\* the seek of this step, content_length known, has its start at or past
\* content_length, or is from the end with a suffix of zero bytes
PastKnownEnd ==
    /\ content_length # None
    /\ last'.op = "seek"
    /\ \/ last'.whence = WHENCE_START /\ Max(0, last'.arg) >= content_length
       \/ /\ last'.whence = WHENCE_CURRENT
          /\ Max(0, last'.arg + current_pos) >= content_length
       \/ last'.whence = WHENCE_END /\ Max(0, -last'.arg) = 0

\* C19: with content_length known, 0 included, a seek to a start at or past
\* content_length, or from the end with a suffix of zero bytes, sends no
\* request, does not raise, returns content_length and leaves an empty body;
\* every other seek sends exactly one range GET.
C19_SeekPastKnownEndSendsNothing ==
    [][/\ PastKnownEnd
          => /\ last'.reqs = 0 /\ last'.err = "none"
             /\ position' = content_length /\ current_pos' = content_length
             /\ body' = EmptyBody
       /\ (last'.op = "seek" /\ ~PastKnownEnd /\ ~UNCHANGED vars)
          => last'.ranged = 1]_vars

\* the read(n) of this step, n >= 0, finds n bytes in the buffer or the
\* end-of-stream flag set
ServedFromBuffer ==
    /\ last'.op = "read" /\ last'.arg >= 0
    /\ (Len(buffer) >= last'.arg \/ eof)

\* the read(n) of this step has to fill the buffer
Refills ==
    /\ last'.op = "read" /\ last'.arg > 0
    /\ Len(buffer) < last'.arg /\ ~eof

\* C20: read(n), n >= 0, with n bytes in the buffer or the end-of-stream flag
\* set, sends no request, takes the bytes it returns off the front of the
\* buffer and leaves the position and body of the raw reader alone; a read
\* that fills the buffer, the store answering, returns the next n bytes of
\* the object, or all that remain when they are fewer.
C20_ReadServedFromBuffer ==
    [][/\ (ServedFromBuffer /\ ~UNCHANGED vars)
          => /\ last'.reqs = 0 /\ last'.err = "none"
             /\ last'.out = Slice(buffer, 0, Min(last'.arg, Len(buffer)))
             /\ buffer = last'.out \o buffer'
             /\ position' = position /\ body' = body
       /\ (Refills /\ last'.flt = 0)
          => /\ last'.err = "none"
             /\ last'.out = Slice(object, current_pos,
                                  Min(current_pos + last'.arg, Len(object)))]_vars

\* C21: seek(k, WHENCE_CURRENT), after any calls and with any bytes left in
\* the buffer, the store answering, lands at
\* min(max(0, tell() + k), content_length), tell() being the position of the
\* Reader and not that of the raw reader; it empties the buffer and sets the
\* end-of-stream flag exactly when the new position is content_length.
C21_SeekFromCurrent ==
    [][(/\ ~UNCHANGED vars
        /\ last'.op = "seek" /\ last'.whence = WHENCE_CURRENT
        /\ last'.gf = 0)
       => /\ last'.err = "none"
          /\ content_length' = Len(object)
          /\ current_pos' = Min(Max(0, current_pos + last'.arg), content_length')
          /\ buffer' = <<>>
          /\ eof' = (current_pos' = content_length')]_vars

\* the read of this step reads from the raw reader: read(-1) always does, and
\* read(n) does when the buffer holds fewer than n bytes and the
\* end-of-stream flag is not set
ReadsRaw ==
    /\ last'.op = "read"
    /\ \/ last'.arg < 0
       \/ last'.arg > 0 /\ Len(buffer) < last'.arg /\ ~eof

\* C22: the object not changing, content_length, once known, stays as it is;
\* 0 <= position <= content_length; and a read of the raw reader that finds
\* body None sends a range GET before it returns anything, and what it
\* returns are the bytes of the object from position on.
C22_RangeState ==
    [][/\ content_length # None
          => /\ content_length' = content_length
             /\ 0 <= position /\ position <= content_length
       /\ content_length' # None
          => 0 <= position' /\ position' <= content_length'
       /\ (body = NoBody /\ ReadsRaw /\ ~UNCHANGED vars)
          => /\ last'.ranged >= 1
             /\ last'.err = "none"
                => /\ Len(last'.out) >= Len(buffer)
                   /\ last'.out
                      = buffer \o Slice(object, position,
                                       position + Len(last'.out) - Len(buffer))
                   /\ position' >= position]_vars

\* the first read of a Reader made with defer_seek: the body was None, one
\* range GET was sent, and bytes came back
C22_Witness ==
    /\ reading /\ prev.op = "init"
    /\ last.op = "read" /\ last.err = "none" /\ last.flt = 0
    /\ last.ranged = 1 /\ Len(last.out) >= 2
    /\ content_length = Len(object) /\ position <= content_length

\* C18: close() on a MultipartWriter whose session is open, the store
\* carrying every request out: with no byte written it sends one abort and
\* then one PUT of an empty body, no part upload and no completion, and the
\* object is empty; with bytes written it sends one completion and no abort
\* or PUT, and, no earlier call having raised, the session is completed.
C18_CloseOfEmptyAbortsAndPuts ==
    [][(/\ ~UNCHANGED vars
        /\ wlast'.op = "close"
        /\ mp /\ session = "open" /\ rejects' = rejects)
       => /\ total_bytes = 0
             => /\ wlast'.reqs = <<[op |-> "abort", ok |-> TRUE],
                                  [op |-> "put", ok |-> TRUE]>>
                /\ wlast'.err = "none" /\ ~mp'
                /\ session' = "aborted"
                /\ exists' /\ object' = <<>>
          /\ total_bytes > 0
             => /\ Sent(wlast', "complete") = 1
                /\ Sent(wlast', "abort") = 0
                /\ Sent(wlast', "put") = 0
                /\ clean => /\ wlast'.err = "none" /\ ~mp'
                            /\ session' = "completed"]_vars

\* a writer given only empty bytes was closed: the session is aborted and the
\* object is there, empty
C18_Witness ==
    /\ wlast.op = "close" /\ wlast.err = "none" /\ ~mp
    /\ writes >= 1 /\ total_bytes = 0
    /\ Sent(wlast, "abort") = 1 /\ Sent(wlast, "put") = 1
    /\ Sent(wlast, "upload") = 0 /\ Sent(wlast, "complete") = 0
    /\ session = "aborted" /\ exists /\ object = <<>>

\* C17: a SinglepartWriter sends nothing when written to; close(), no call
\* having raised, sends one PUT whose body is the bytes written, in order; a
\* close() after that sends nothing; terminate, called for an error escaping
\* the scope, sends no PUT.
C17_OnePutAtClose ==
    [][/\ writes' = writes + 1 => wlast'.reqs = <<>>
       /\ (/\ ~UNCHANGED vars
           /\ wlast'.op \in {"close", "exit"}
           /\ clean /\ sp_buf # NoBuf /\ rejects' = rejects)
          => /\ wlast'.reqs = <<[op |-> "put", ok |-> TRUE]>>
             /\ wlast'.err = "none"
             /\ exists' /\ object' = written
             /\ sp_buf' = NoBuf
       /\ (wlast'.op \in {"close", "exit"} /\ sp_buf = NoBuf)
          => wlast'.reqs = <<>> /\ wlast'.err = "none" /\ object' = object
       /\ wlast'.op \in {"terminate", "exit_raised"}
          => /\ wlast'.reqs = <<>> /\ wlast'.err = "none"
             /\ object' = object /\ exists' = exists]_vars

\* three writes, a close that put their bytes, and a second close
C17_Witness ==
    /\ sp_buf = NoBuf /\ clean
    /\ writes = 3 /\ Len(written) >= 4
    /\ exists /\ object = written
    /\ wlast = [op |-> "close", err |-> "none", reqs |-> <<>>]

\* C23: with no key_limit, once every download has returned and iter_bucket
\* has ended, whatever the number of workers and the paging of the listing
\* (pages without keys included), the pairs yielded are one for each listed
\* key the filter accepts, with its content, and none for another key; the
\* listing sent one request for each page, each with the token of the page
\* before, and none after the page without a token; while it runs, no key is
\* yielded twice and none that is not accepted.
C23_EveryAcceptedKeyOnce ==
    key_limit = None
    => /\ \A i \in 1..Len(yielded) :
             /\ yielded[i][1] \in AllAccepted
             /\ yielded[i][2] = Content(yielded[i][1])
             /\ \A j \in 1..(i - 1) : yielded[j][1] # yielded[i][1]
       /\ Len(list_requests) <= Len(pages)
       /\ \A i \in 1..Len(list_requests) : list_requests[i] = i - 1
       /\ done = "exhausted"
          => /\ {yielded[i][1] : i \in 1..Len(yielded)} = AllAccepted
             /\ Len(yielded) = Cardinality(AllAccepted)
             /\ Len(list_requests) = Len(pages)

\* two workers, two pages, the first of them without keys, a filter that
\* rejects key 1: the accepted keys 2 and 3 were yielded, 3 ahead of 2
C23_Witness ==
    /\ key_limit = None /\ workers = 2 /\ done = "exhausted"
    /\ Len(pages) = 2 /\ pages[1] = <<>> /\ Len(pages[2]) = 3
    /\ accept_key = {2, 3}
    /\ list_requests = <<0, 1>>
    /\ yielded = <<<<3, Content(3)>>, <<2, Content(2)>>>>

\* C13: a download makes at most retries + 1 attempts, one more only after an
\* attempt failed with a client error; it raises exactly when attempt
\* retries + 1 failed too; the loop takes the results in order, and the error
\* of a download ends iter_bucket: the key is not passed over and nothing is
\* yielded after the error is raised.
C13_DownloadRetriesThenFails ==
    [][/\ results' # results
          => LET d == results'[Len(results')]
                 failed == dfaults' - dfaults
             IN  \/ d.err = "none" /\ failed <= retries
                 \/ d.err = "ClientError" /\ failed = retries + 1
       /\ consumed' # consumed
          => /\ consumed' = consumed + 1
             /\ IF results[consumed'].err # "none"
                THEN done' = "failed" /\ yielded' = yielded
                ELSE yielded' = Append(yielded, <<results[consumed'].key,
                                                 results[consumed'].content>>)
       /\ done = "failed"
          => yielded' = yielded /\ consumed' = consumed /\ done' = "failed"]_vars

\* retries 1: a key failed twice after one pair was yielded, the error was
\* raised, and the download of a later key completed and was not yielded
C13_Witness ==
    /\ retries = 1 /\ dfaults = 2 /\ done = "failed"
    /\ Len(yielded) = 1 /\ consumed = 2
    /\ results[2].err = "ClientError"
    /\ Len(results) = 3 /\ results[3].err = "none"

\* ------------------------------------------- claims on _retry_if_failed
\* the invocations of partial() the call can make: the first attempts of them
Invocations == 1..attempts

\* the first invocation that does not end in a retried error, 0 if none
FirstSettled ==
    IF \A i \in Invocations : partial_outcomes[i] \in exceptions THEN 0
    ELSE CHOOSE i \in Invocations :
            /\ partial_outcomes[i] \notin exceptions
            /\ \A j \in 1..(i - 1) : partial_outcomes[j] \in exceptions

\* C11: _retry_if_failed invokes the operation at most attempts times; when
\* an invocation succeeds it is the last one made and its result is returned;
\* when all attempts invocations raise a retried error the call raises
\* IOError after exactly attempts invocations.
C11_AtMostAttempts ==
    retry_result.result # "none"
    => /\ retry_result.calls <= attempts
       /\ (FirstSettled # 0 /\ partial_outcomes[FirstSettled] = "ok")
            => retry_result.result = "ok" /\ retry_result.calls = FirstSettled
       /\ retry_result.result = "ok"
            => partial_outcomes[retry_result.calls] = "ok"
       /\ FirstSettled = 0
            => retry_result.result = "IOError" /\ retry_result.calls = attempts

\* four attempts: three retried errors and then a success
C11_Witness ==
    /\ attempts = 4
    /\ retry_result = [result |-> "ok", calls |-> 4, sleeps |-> 3]

\* C12: an invocation that raises an error outside the retried set ends the
\* call with that error: it is the last invocation, no sleep follows it, and
\* the error is not IOError, however many attempts remain.
C12_OtherErrorsPropagate ==
    (retry_result.result # "none" /\ FirstSettled # 0
     /\ partial_outcomes[FirstSettled] # "ok")
    => /\ retry_result.result = partial_outcomes[FirstSettled]
       /\ retry_result.calls = FirstSettled
       /\ retry_result.sleeps = FirstSettled - 1

\* a ClientError on the second of four attempts, after one retried error
C12_Witness ==
    /\ attempts = 4 /\ exceptions = {"EndpointConnectionError"}
    /\ partial_outcomes[1] = "EndpointConnectionError"
    /\ partial_outcomes[2] = "ClientError"
    /\ retry_result = [result |-> "ClientError", calls |-> 2, sleeps |-> 1]

\* C24: _retry_if_failed sleeps only between invocations: when it returns or
\* raises after one invocation or more, it has slept once less than it has
\* invoked the operation, also when every attempt failed.
C24_SleepsBetweenAttempts ==
    (retry_result.result # "none" /\ retry_result.calls >= 1)
    => retry_result.sleeps = retry_result.calls - 1

\* C25: iter_bucket never yields more than key_limit pairs, whatever the
\* key_limit given, 0 included: with key_limit 0 it yields none.
C25_StopsAtKeyLimit ==
    key_limit # None => Len(yielded) <= key_limit

\* the bytes of the object from the position of the Reader on
Remaining == Slice(object, current_pos, Len(object))

\* Remaining up to and including the first line_terminator in it, all of it
\* when there is none
NextLine ==
    LET at == FindTerminator(Remaining, line_terminator, 0)
    IN  IF at = -1 THEN Remaining
        ELSE Slice(Remaining, 0, at + Len(line_terminator))

\* C26: whatever the chunk size, the line_terminator (of one byte or more)
\* and the object, readline() returns the bytes from the position up to and
\* including the first terminator after it, or all the bytes left when there
\* is none, and moves the position past them; at the end it returns no byte.
C26_ReadlineToTerminator ==
    [][last'.op = "readline"
       => /\ last'.err = "none"
          /\ last'.out = NextLine
          /\ current_pos' = current_pos + Len(NextLine)]_vars

\* C27: between the calls of a Reader, whatever reads, readlines and seeks
\* were made and whichever of them raised, tell() plus the number of bytes in
\* the buffer is the position of the raw reader, the bytes in the buffer are
\* the bytes of the object from tell() on, and tell() is at most
\* content_length once that is known.
C27_TellIsNextByte ==
    reading
    => /\ current_pos + Len(buffer) = position
       /\ buffer = Slice(object, current_pos, position)
       /\ content_length # None => current_pos <= content_length

\* a call has raised with bytes left in the buffer, the position of the
\* Reader past the start and that of the raw reader ahead of it
C27_Witness ==
    /\ reading /\ last.err = "IOError"
    /\ Len(buffer) >= 1 /\ current_pos >= 1
    /\ position = current_pos + Len(buffer)

\* C28: while the session of a MultipartWriter is open, the recorded parts
\* followed by the staged bytes are the bytes write has accepted, in order,
\* and tell() is their number, also after a flush that raised and the writes
\* that follow it.
C28_NoAcceptedByteLost ==
    (~reading /\ mp /\ session = "open")
    => /\ Assemble(uploaded, parts) \o buf.data = written
       /\ total_bytes = Len(Assemble(uploaded, parts)) + Len(buf.data)

\* C29: when __exit__ of a MultipartWriter has finished, with or without an
\* error escaping the scope, and also when the close() it ran has raised, the
\* session is completed or aborted: it is not left open on the store.
C29_NoOrphanedSession ==
    wlast.op \in {"exit", "exit_raised"} => session # "open"

\* C30: once a MultipartWriter is closed (close() or terminate() has
\* returned), a further close() or terminate(), whatever was written before
\* or after, sends no request and raises nothing.
C30_ClosedStaysQuiet ==
    [][(/\ ~UNCHANGED vars
        /\ ~reading' /\ ~mp /\ wlast'.op \in {"close", "terminate"})
       => wlast'.reqs = <<>> /\ wlast'.err = "none"]_vars

====
